---- MODULE Spec2Model ----
(***************************************************************************)
(* Model of the debt payoff planner of the pfm API:                        *)
(*   apps/api/src/debt/planner.js   planPayoff                             *)
(*   apps/api/src/server.mjs        POST /debts, POST /debts/plan          *)
(*                                                                         *)
(* Money is counted in mills (1/1000 of a currency unit), so the planner's *)
(* threshold 0.009 is the integer 9.  The monthly rate apr/100/12 is       *)
(* apr/1200; every apr the model draws is a multiple of 1200, so           *)
(* balance * apr / 1200 is an integer and the model computes exactly what  *)
(* the real-number arithmetic of the code computes (ExactArithmetic below  *)
(* checks that no division of the model ever rounds).                      *)
(***************************************************************************)
EXTENDS Integers, Sequences, FiniteSets, TLC

VARIABLES
    debts,          \* server.mjs: the in-memory debt store, in insertion order
    pc,             \* "idle" | "loop" (inside planPayoff's while) | "done"
    monthlyBudget,  \* planPayoff argument
    method,         \* planPayoff argument
    copy,           \* planPayoff: working copies of the debts, with balance
    month,          \* planPayoff: month counter
    schedule,       \* planPayoff: rows pushed so far
    result,         \* the value planPayoff returned (the response of /debts/plan)
    form            \* DebtPlanner.tsx: the component's debts, monthly and method

vars == <<debts, pc, monthlyBudget, method, copy, month, schedule, result, form>>

----------------------------------------------------------------------------
(* Program constants *)

Epsilon == 9          \* 0.009, in mills
MaxMonths == 600      \* month<600
AprDivisor == 1200    \* apr/100/12

(* Bounds of the model *)

MaxDebts == 2         \* debts posted to the store
MaxBalance == 1000    \* a run whose balance has grown past this is not continued

None == [none |-> TRUE]

Min(a, b) == IF a <= b THEN a ELSE b
Max(a, b) == IF a >= b THEN a ELSE b

----------------------------------------------------------------------------
(* Inputs.  principal, apr, min as posted to POST /debts; budget and       *)
(* method as posted to POST /debts/plan.  Nothing in the code validates    *)
(* them, so negative values are inputs too.                                *)

ValidDebtInputs ==
    [principal : {40, 50}, apr : {0, 1200}, min : {0, 60}]
    \cup { [principal |-> 610, apr |-> 0,    min |-> 1],
           [principal |-> 40,  apr |-> 2400, min |-> 0],
           [principal |-> 10,  apr |-> 1200, min |-> 0],
           [principal |-> 50,  apr |-> 1200, min |-> 40] }

InvalidDebtInputs ==
    { [principal |-> -40, apr |-> 0,     min |-> 0],
      [principal |-> 40,  apr |-> -1200, min |-> 0],
      [principal |-> 40,  apr |-> 0,     min |-> -60] }

DebtInputs == ValidDebtInputs \cup InvalidDebtInputs

BudgetInputs == {-75, 1, 75, 80, 85, 100}

\* the method field of the request body left out
Undefined == "undefined"

MethodInputs == {"avalanche", "snowball", "highest_apr", Undefined}

\* line 2: the default of the destructured argument, method='avalanche'
DefaultMethod(meth) == IF meth = Undefined THEN "avalanche" ELSE meth

----------------------------------------------------------------------------
(* planPayoff *)

\* line 3: debts.map(d=> ({...d, balance: d.principal}))
CopyDebts(list) ==
    [i \in 1..Len(list) |->
        [id |-> list[i].id, principal |-> list[i].principal, apr |-> list[i].apr,
         min |-> list[i].min, balance |-> list[i].principal]]

\* mutant of Outstanding: the threshold of a whole cent (0.01)
Outstanding_AboveOneCent(d) == d.balance > Epsilon + 1

\* d.balance>0.009
Outstanding(d) == d.balance > Epsilon

\* line 9: copy.some(d=> d.balance>0.009)
SomeOutstanding(cp) == \E i \in 1..Len(cp) : Outstanding(cp[i])

\* mutant of Interest: the division by 12 forgotten (an annual rate per month)
Interest_Annual(d) == (d.balance * d.apr) \div 100

\* mutant of Interest: the rate of half a month
Interest_HalfMonth(d) == (d.balance * d.apr) \div (2 * AprDivisor)

\* line 17: d.balance * (d.apr/100/12)
Interest(d) == (d.balance * d.apr) \div AprDivisor

\* mutant of PayMin: the minimum payment not capped by the balance
PayMin_Uncapped(balance, d) == d.min

\* line 20: Math.min(d.balance, d.min||0), on the balance after accrual
PayMin(balance, d) == Min(balance, d.min)

\* mutant of NewRow: rows numbered from 0
NewRow_FromZero(m) ==
    [month |-> m - 1, payments |-> <<>>, totals |-> [interest |-> 0, principal |-> 0]]

\* line 11
NewRow(m) == [month |-> m, payments |-> <<>>, totals |-> [interest |-> 0, principal |-> 0]]

\* mutant of AccrueAndPayMinimum: the minimum is paid on the balance before the
\* month's interest is accrued on what remains
AccrueAndPayMinimum_PayFirst(st, i) ==
    LET d == st.copy[i] IN
    IF d.balance <= Epsilon THEN st
    ELSE
      LET payMin   == PayMin(d.balance, d)
          pays     == payMin > 0 /\ st.avail > 0
          applied  == IF pays THEN Min(payMin, st.avail) ELSE 0
          left     == d.balance - applied
          interest == (left * d.apr) \div AprDivisor
      IN  [copy  |-> [st.copy EXCEPT ![i].balance = left + interest],
           avail |-> st.avail - applied,
           row   |-> [month    |-> st.row.month,
                      payments |-> IF pays
                                   THEN Append(st.row.payments,
                                               [id |-> d.id, min |-> applied, extra |-> 0])
                                   ELSE st.row.payments,
                      totals   |-> [interest  |-> st.row.totals.interest + interest,
                                    principal |-> st.row.totals.principal + applied]]]

\* lines 16-27: one pass of the first for loop, for the debt at index i.
\* st = [copy, avail, row]
AccrueAndPayMinimum(st, i) ==
    LET d == st.copy[i] IN
    IF d.balance <= Epsilon THEN st
    ELSE
      LET interest == Interest(d)
          accrued  == d.balance + interest
          payMin   == PayMin(accrued, d)
          pays     == payMin > 0 /\ st.avail > 0
          applied  == Min(payMin, st.avail)
      IN  [copy  |-> [st.copy EXCEPT ![i].balance =
                          IF pays THEN accrued - applied ELSE accrued],
           avail |-> IF pays THEN st.avail - applied ELSE st.avail,
           row   |-> [month    |-> st.row.month,
                      payments |-> IF pays
                                   THEN Append(st.row.payments,
                                               [id |-> d.id, min |-> applied, extra |-> 0])
                                   ELSE st.row.payments,
                      totals   |-> [interest  |-> st.row.totals.interest + interest,
                                    principal |-> st.row.totals.principal
                                        + (IF pays THEN Max(0, applied - interest) ELSE 0)]]]

\* mutant of MinimumPhase: the debts visited from the last to the first
RECURSIVE MinimumPhase_LastFirst(_, _)
MinimumPhase_LastFirst(st, i) ==
    IF i > Len(st.copy) THEN st
    ELSE MinimumPhase_LastFirst(AccrueAndPayMinimum(st, Len(st.copy) + 1 - i), i + 1)

\* lines 15-28: for(const d of copy)
RECURSIVE MinimumPhase(_, _)
MinimumPhase(st, i) ==
    IF i > Len(st.copy) THEN st
    ELSE MinimumPhase(AccrueAndPayMinimum(st, i), i + 1)

\* mutants of Compare: the method ignored (always by balance); avalanche by
\* ascending APR; snowball by descending balance
Compare_ByBalance(a, b, meth) == a.balance - b.balance

Compare_AprAscending(a, b, meth) ==
    IF meth = "snowball" THEN a.balance - b.balance ELSE a.apr - b.apr

Compare_BalanceDescending(a, b, meth) ==
    IF meth = "snowball" THEN b.balance - a.balance ELSE b.apr - a.apr

\* mutant of Compare: everything but avalanche sorts by balance
Compare_BalanceUnlessAvalanche(a, b, meth) ==
    IF meth = "avalanche" THEN b.apr - a.apr ELSE a.balance - b.balance

\* line 6: the sort comparator, on two working copies
Compare(a, b, meth) ==
    IF meth = "snowball" THEN a.balance - b.balance ELSE b.apr - a.apr

\* mutant of InsertStable: x goes in front of the elements it compares equal to
RECURSIVE InsertStable_BeforeEquals(_, _, _, _)
InsertStable_BeforeEquals(s, x, cp, meth) ==
    IF s = <<>> THEN <<x>>
    ELSE LET n == Len(s) IN
         IF Compare(cp[s[n]], cp[x], meth) >= 0
         THEN Append(InsertStable_BeforeEquals(SubSeq(s, 1, n - 1), x, cp, meth), s[n])
         ELSE Append(s, x)

\* Array.prototype.sort is stable: x goes behind every element that does not
\* compare greater than it.  s and the result are sequences of indices of cp.
RECURSIVE InsertStable(_, _, _, _)
InsertStable(s, x, cp, meth) ==
    IF s = <<>> THEN <<x>>
    ELSE LET n == Len(s) IN
         IF Compare(cp[s[n]], cp[x], meth) > 0
         THEN Append(InsertStable(SubSeq(s, 1, n - 1), x, cp, meth), s[n])
         ELSE Append(s, x)

RECURSIVE SortStable(_, _, _, _)
SortStable(done, todo, cp, meth) ==
    IF todo = <<>> THEN done
    ELSE SortStable(InsertStable(done, Head(todo), cp, meth), Tail(todo), cp, meth)

\* mutant of FilterOutstanding: nothing filtered out
FilterOutstanding_KeepsAll(cp) == [i \in 1..Len(cp) |-> i]

\* line 5: .filter(d=> d.balance>0.009), as the indices kept, in input order
FilterOutstanding(cp) ==
    SelectSeq([i \in 1..Len(cp) |-> i], LAMBDA i : Outstanding(cp[i]))

\* mutant of Order: only the first target of the strategy is returned
Order_FirstOnly(cp, meth) ==
    LET all == SortStable(<<>>, FilterOutstanding(cp), cp, meth)
    IN  IF all = <<>> THEN all ELSE <<all[1]>>

\* lines 4-6: order(), as a sequence of indices into copy (the sorted array
\* holds the same objects as copy)
Order(cp, meth) == SortStable(<<>>, FilterOutstanding(cp), cp, meth)

\* mutant of AddExtra: the extra always pushed as a new entry
AddExtra_AlwaysPush(payments, id, extra) ==
    Append(payments, [id |-> id, min |-> 0, extra |-> extra])

\* mutant of AddExtra: the debt's entry is replaced by a new one, its min lost
AddExtra_ReplacesEntry(payments, id, extra) ==
    Append(SelectSeq(payments, LAMBDA p : p.id # id), [id |-> id, min |-> 0, extra |-> extra])

\* line 35-36: row.payments.find(p=>p.id===d.id), then p.extra += extra or push
AddExtra(payments, id, extra) ==
    LET hits == {k \in 1..Len(payments) : payments[k].id = id} IN
    IF hits # {}
    THEN LET k == CHOOSE h \in hits : \A g \in hits : h <= g
         IN  [payments EXCEPT ![k].extra = @ + extra]
    ELSE Append(payments, [id |-> id, min |-> 0, extra |-> extra])

\* mutant of StrategyPhase: every debt of the order takes at most half of what
\* is left of the budget
RECURSIVE StrategyPhase_HalfEach(_, _, _)
StrategyPhase_HalfEach(st, ord, k) ==
    IF k > Len(ord) THEN st
    ELSE
      LET i == ord[k]
          d == st.copy[i]
      IN
      IF st.avail <= 0 \/ d.balance <= Epsilon THEN StrategyPhase_HalfEach(st, ord, k + 1)
      ELSE
        LET extra == Min(d.balance, (st.avail + 1) \div 2)
            st1 == [copy  |-> [st.copy EXCEPT ![i].balance = @ - extra],
                    avail |-> st.avail - extra,
                    row   |-> [month    |-> st.row.month,
                               payments |-> AddExtra(st.row.payments, d.id, extra),
                               totals   |-> [interest  |-> st.row.totals.interest,
                                             principal |-> st.row.totals.principal + extra]]]
        IN  IF st1.avail <= 0 THEN st1 ELSE StrategyPhase_HalfEach(st1, ord, k + 1)

\* lines 31-39: for(const d of order())
RECURSIVE StrategyPhase(_, _, _)
StrategyPhase(st, ord, k) ==
    IF k > Len(ord) THEN st
    ELSE
      LET i == ord[k]
          d == st.copy[i]
      IN
      IF st.avail <= 0 \/ d.balance <= Epsilon THEN StrategyPhase(st, ord, k + 1)
      ELSE
        LET extra == Min(d.balance, st.avail)
            st1 == [copy  |-> [st.copy EXCEPT ![i].balance = @ - extra],
                    avail |-> st.avail - extra,
                    row   |-> [month    |-> st.row.month,
                               payments |-> AddExtra(st.row.payments, d.id, extra),
                               totals   |-> [interest  |-> st.row.totals.interest,
                                             principal |-> st.row.totals.principal + extra]]]
        IN  IF st1.avail <= 0 THEN st1 ELSE StrategyPhase(st1, ord, k + 1)

\* mutant of MonthBody: the strategy phase starts from the whole budget again
MonthBody_BudgetPerPhase(cp, m, budget, meth) ==
    LET st0 == [copy |-> cp, avail |-> budget, row |-> NewRow(m)]
        st1 == MinimumPhase(st0, 1)
        st2 == [copy |-> st1.copy, avail |-> budget, row |-> st1.row]
    IN  StrategyPhase(st2, Order(st2.copy, meth), 1)

\* lines 10-41: the body of the while loop, for month number m
MonthBody(cp, m, budget, meth) ==
    LET st0 == [copy |-> cp, avail |-> budget, row |-> NewRow(m)]
        st1 == MinimumPhase(st0, 1)
    IN  StrategyPhase(st1, Order(st1.copy, meth), 1)

\* mutant of LoopCondition: any positive balance keeps the loop running
LoopCondition_AnyPositive(cp, m) ==
    (\E i \in 1..Len(cp) : cp[i].balance > 0) /\ m < MaxMonths

\* mutant of LoopCondition: the iteration cap dropped
LoopCondition_NoCap(cp, m) == SomeOutstanding(cp)

\* line 9: the while condition
LoopCondition(cp, m) == SomeOutstanding(cp) /\ m < MaxMonths

\* line 44: the sum that reduce computes over rows lo..hi; the range is halved
\* so that the evaluation of a 600-row schedule stays shallow
RECURSIVE SumInterestBetween(_, _, _)
SumInterestBetween(rows, lo, hi) ==
    IF lo > hi THEN 0
    ELSE IF lo = hi THEN rows[lo].totals.interest
    ELSE LET mid == (lo + hi) \div 2
         IN  SumInterestBetween(rows, lo, mid) + SumInterestBetween(rows, mid + 1, hi)

\* line 44: schedule.reduce((s,r)=> s+r.totals.interest,0)
SumInterest(rows) == SumInterestBetween(rows, 1, Len(rows))

\* mutant of PlanResult: months taken from the index of the last row, counted from 0
PlanResult_CountsFromZero(rows) ==
    [months |-> Len(rows) - 1, interestPaid |-> SumInterest(rows), schedule |-> rows]

\* lines 43-45
PlanResult(rows) ==
    [months |-> Len(rows), interestPaid |-> SumInterest(rows), schedule |-> rows]

\* The model follows a run only while its balances are within MaxBalance (or
\* within the principal, for a debt that starts above MaxBalance).
WithinBounds(cp) ==
    \A i \in 1..Len(cp) : cp[i].balance <= Max(MaxBalance, cp[i].principal)

----------------------------------------------------------------------------
(* The server and the planner as a state machine *)

\* DebtPlanner.tsx 7-9: no debts, monthly 500, method avalanche
InitialForm == [debts |-> <<>>, monthly |-> 500000, method |-> "avalanche"]

Init ==
    /\ debts = <<>>
    /\ pc = "idle"
    /\ monthlyBudget = 0
    /\ method = "avalanche"
    /\ copy = <<>>
    /\ month = 0
    /\ schedule = <<>>
    /\ result = None
    /\ form = InitialForm

\* server.mjs 76-82: POST /debts
PostDebt(d) ==
    /\ pc \in {"idle", "done"}
    /\ Len(debts) < MaxDebts
    /\ debts' = Append(debts, [id |-> Len(debts) + 1, principal |-> d.principal,
                               apr |-> d.apr, min |-> d.min])
    /\ pc' = "idle"
    /\ monthlyBudget' = 0
    /\ method' = "avalanche"
    /\ copy' = <<>>
    /\ month' = 0
    /\ schedule' = <<>>
    /\ result' = None
    /\ form' = form

\* server.mjs 84-87 and planner.js 2-8: POST /debts/plan calls planPayoff
PostPlan(budget, meth) ==
    /\ pc \in {"idle", "done"}
    /\ pc' = "loop"
    /\ monthlyBudget' = budget
    /\ method' = DefaultMethod(meth)
    /\ copy' = CopyDebts(debts)
    /\ month' = 0
    /\ schedule' = <<>>
    /\ result' = None
    /\ UNCHANGED <<debts, form>>

\* mutant of SimulateMonth: the balances are tracked on the records passed in
\* (no copies), so a month rewrites the caller's debts
SimulateMonth_InPlace ==
    /\ pc = "loop"
    /\ LoopCondition(copy, month)
    /\ WithinBounds(copy)
    /\ LET st == MonthBody(copy, month + 1, monthlyBudget, method) IN
         /\ month' = month + 1
         /\ copy' = st.copy
         /\ schedule' = Append(schedule, st.row)
         /\ debts' = [i \in 1..Len(debts) |->
                         [debts[i] EXCEPT !.principal = st.copy[i].balance]]
    /\ UNCHANGED <<pc, monthlyBudget, method, result, form>>

\* planner.js 9-42: one iteration of the while loop
SimulateMonth ==
    /\ pc = "loop"
    /\ LoopCondition(copy, month)
    /\ WithinBounds(copy)
    /\ LET st == MonthBody(copy, month + 1, monthlyBudget, method) IN
         /\ month' = month + 1
         /\ copy' = st.copy
         /\ schedule' = Append(schedule, st.row)
    /\ UNCHANGED <<debts, pc, monthlyBudget, method, result, form>>

\* planner.js 43-45 and server.mjs 88: the loop is left and the plan returned
ReturnPlan ==
    /\ pc = "loop"
    /\ ~LoopCondition(copy, month)
    /\ result' = PlanResult(schedule)
    /\ pc' = "done"
    /\ UNCHANGED <<debts, monthlyBudget, method, copy, month, schedule, form>>

Next ==
    \/ \E d \in DebtInputs : PostDebt(d)
    \/ \E b \in BudgetInputs, m \in MethodInputs : PostPlan(b, m)
    \/ SimulateMonth
    \/ ReturnPlan

Spec == Init /\ [][Next]_vars

----------------------------------------------------------------------------
(* planPayoff on the worked scenarios of the specification: whole calls    *)
(* (a debt list with its budget), in mills, run under both methods.        *)

\* one debt, principal 1200, apr 0, minimum payment 100, monthlyBudget 100
Scenario12 ==
    [debts |-> <<[id |-> 1, principal |-> 1200000, apr |-> 0, min |-> 100000]>>,
     monthlyBudget |-> 100000]

\* one debt, principal 1000, apr 24, minimum payment 1000, monthlyBudget 1000
Scenario13 ==
    [debts |-> <<[id |-> 1, principal |-> 1000000, apr |-> 24, min |-> 1000000]>>,
     monthlyBudget |-> 1000000]

\* one debt whose monthly interest equals the budget: 0.04 at apr 1200, budget 0.04
ScenarioInterestOnly ==
    [debts |-> <<[id |-> 1, principal |-> 40, apr |-> 1200, min |-> 0]>>,
     monthlyBudget |-> 40]

Scenarios == {Scenario12, Scenario13, ScenarioInterestOnly}

InitScenarios ==
    /\ \E s \in Scenarios :
          /\ debts = s.debts
          /\ monthlyBudget = s.monthlyBudget
    /\ method \in MethodInputs
    /\ pc = "idle"
    /\ copy = <<>>
    /\ month = 0
    /\ schedule = <<>>
    /\ result = None
    /\ form = InitialForm

NextScenarios ==
    \/ PostPlan(monthlyBudget, method)
    \/ SimulateMonth
    \/ ReturnPlan

SpecScenarios == InitScenarios /\ [][NextScenarios]_vars

----------------------------------------------------------------------------
(* The DebtPlanner component against the server: the form has been filled  *)
(* in, and 'Compute Plan' is clicked any number of times.                  *)

FormDebtInputs ==
    { [principal |-> 40, apr |-> 1200, min |-> 0],
      [principal |-> 50, apr |-> 0,    min |-> 60] }

FormBudgetInputs == {75, 100}

\* the select of the component offers these two
FormMethodInputs == {"avalanche", "snowball"}

FormInputs ==
    [debts   : UNION {[1..n -> FormDebtInputs] : n \in 1..MaxDebts},
     monthly : FormBudgetInputs,
     method  : FormMethodInputs]

\* DebtPlanner.tsx 16 with server.mjs 76-82: every debt of the form is posted,
\* in order, and stored under a new id
RECURSIVE PostAll(_, _)
PostAll(store, list) ==
    IF list = <<>> THEN store
    ELSE PostAll(Append(store, [id |-> Len(store) + 1, principal |-> Head(list).principal,
                                apr |-> Head(list).apr, min |-> Head(list).min]),
                 Tail(list))

\* DebtPlanner.tsx 15-19: saveAll posts the debts of the form, then asks for the
\* plan with the form's budget and method (server.mjs 84-87, planner.js 2-8)
SaveAll ==
    /\ pc \in {"idle", "done"}
    /\ Len(debts) + Len(form.debts) <= MaxDebts
    /\ debts' = PostAll(debts, form.debts)
    /\ pc' = "loop"
    /\ monthlyBudget' = form.monthly
    /\ method' = DefaultMethod(form.method)
    /\ copy' = CopyDebts(debts')
    /\ month' = 0
    /\ schedule' = <<>>
    /\ result' = None
    /\ form' = form

InitForm ==
    /\ form \in FormInputs
    /\ debts = <<>>
    /\ pc = "idle"
    /\ monthlyBudget = 0
    /\ method = "avalanche"
    /\ copy = <<>>
    /\ month = 0
    /\ schedule = <<>>
    /\ result = None

NextForm ==
    \/ SaveAll
    \/ SimulateMonth
    \/ ReturnPlan

SpecForm == InitForm /\ [][NextForm]_vars

----------------------------------------------------------------------------
(* planPayoff as a function of its arguments: the loop above run to its    *)
(* end.  complete is FALSE when the run left the model's balance bound and *)
(* was not followed to its return.                                         *)

RECURSIVE RunLoop(_, _, _, _, _)
RunLoop(cp, m, rows, budget, meth) ==
    IF LoopCondition(cp, m) /\ WithinBounds(cp)
    THEN LET st == MonthBody(cp, m + 1, budget, meth)
         IN  RunLoop(st.copy, m + 1, Append(rows, st.row), budget, meth)
    ELSE [copy |-> cp, month |-> m, schedule |-> rows]

planPayoff(list, budget, meth) ==
    \* line 2: an omitted method is 'avalanche'
    LET run == IF meth = Undefined
               THEN RunLoop(CopyDebts(list), 0, <<>>, budget, "avalanche")
               ELSE RunLoop(CopyDebts(list), 0, <<>>, budget, meth)
    IN  [complete |-> ~LoopCondition(run.copy, run.month),
         copy     |-> run.copy,
         result   |-> PlanResult(run.schedule)]

----------------------------------------------------------------------------
(* Notions of the specification used by the properties *)

\* spec 4.1 Inputs: principal > 0, apr >= 0, minimumPayment >= 0, budget >= 0,
\* a non-empty list
ValidInput(list, budget) ==
    /\ Len(list) > 0
    /\ budget >= 0
    /\ \A i \in 1..Len(list) :
          list[i].principal > 0 /\ list[i].apr >= 0 /\ list[i].min >= 0

\* spec 7 InvalidInput: empty list, or a negative principal, apr, minimum or budget
InvalidInput(list, budget) ==
    \/ Len(list) = 0
    \/ budget < 0
    \/ \E i \in 1..Len(list) :
          list[i].principal < 0 \/ list[i].apr < 0 \/ list[i].min < 0

InPlan == pc \in {"loop", "done"}

\* the call being run, or just returned, is the given scenario
Runs(s) == InPlan /\ debts = s.debts /\ monthlyBudget = s.monthlyBudget

\* the row of the month that just ended
LastRow == schedule[Len(schedule)]

RECURSIVE SumBalances(_)
SumBalances(cp) ==
    IF cp = <<>> THEN 0
    ELSE SumBalances(SubSeq(cp, 1, Len(cp) - 1)) + cp[Len(cp)].balance

\* what a row records for debt id: its min and extra (0 when it has no entry)
MinOf(row, id) ==
    LET hits == {k \in 1..Len(row.payments) : row.payments[k].id = id}
    IN  IF hits = {} THEN 0 ELSE row.payments[CHOOSE k \in hits : TRUE].min

ExtraOf(row, id) ==
    LET hits == {k \in 1..Len(row.payments) : row.payments[k].id = id}
    IN  IF hits = {} THEN 0 ELSE row.payments[CHOOSE k \in hits : TRUE].extra

----------------------------------------------------------------------------
(* Sanity of the model itself *)

TypeOK ==
    /\ pc \in {"idle", "loop", "done"}
    /\ Len(debts) <= MaxDebts
    /\ month \in 0..MaxMonths
    /\ Len(copy) \in {0, Len(debts)}
    /\ (pc = "done") <=> (result # None)

\* No accrual of the model rounds: balance * apr is a multiple of 1200.
ExactArithmetic ==
    \A i \in 1..Len(copy) : (copy[i].balance * copy[i].apr) % AprDivisor = 0

\* The state machine and the function agree on every returned plan.
ReturnAgrees ==
    pc = "done" =>
        LET p == planPayoff(debts, monthlyBudget, method)
        IN  p.complete /\ p.result = result /\ p.copy = copy

----------------------------------------------------------------------------
(* C1 (code_bug): when planPayoff stops at the 600-iteration cap with a    *)
(* balance still above epsilon, the returned result marks the plan as      *)
(* non-convergent (converged = FALSE); it never has the shape of a         *)
(* completed plan while a balance is outstanding.                          *)
C1_NonConvergentIsMarked ==
    (pc = "done" /\ ValidInput(debts, monthlyBudget) /\ SomeOutstanding(copy)) =>
        ("converged" \in DOMAIN result /\ result.converged = FALSE)

(* C2 (code_bug): invalid input (an empty debt list, a negative principal, *)
(* apr, minimum payment or monthlyBudget) is rejected before any month is  *)
(* simulated: no schedule row is produced and the outcome is an            *)
(* InvalidInput error.                                                     *)
C2_InvalidInputRejected ==
    (InPlan /\ InvalidInput(debts, monthlyBudget)) =>
        /\ schedule = <<>>
        /\ pc = "done" => ("error" \in DOMAIN result /\ result.error = "InvalidInput")

(* C3: for valid inputs every debt's balance is non-negative at the end of *)
(* every simulated month.                                                  *)
C3_BalancesNonNegative ==
    (InPlan /\ ValidInput(debts, monthlyBudget)) =>
        \A i \in 1..Len(copy) : copy[i].balance >= 0

\* a month has ended in which a payment took a balance exactly to zero
C3_Witness ==
    /\ InPlan /\ month >= 1 /\ ValidInput(debts, monthlyBudget)
    /\ \E i \in 1..Len(copy) :
          /\ copy[i].balance = 0
          /\ MinOf(LastRow, copy[i].id) + ExtraOf(LastRow, copy[i].id) > 0

(* C4: the monthly loop executes at most 600 iterations whatever the       *)
(* debts, budget and strategy: the month counter and the number of rows    *)
(* never exceed 600, every iteration adds exactly one row (so 600 - month  *)
(* bounds the iterations still to come), and a returned schedule has at    *)
(* most 600 rows.                                                          *)
C4_AtMost600Rows ==
    /\ month <= MaxMonths
    /\ Len(schedule) = month
    /\ pc = "done" => (result.months <= MaxMonths /\ Len(result.schedule) <= MaxMonths)

\* a run that stopped because the cap was hit
C4_Witness ==
    pc = "done" /\ result.months = MaxMonths /\ SomeOutstanding(copy)

----------------------------------------------------------------------------
\* the interest one month accrues on a debt's principal
InterestOnPrincipal(d) == (d.principal * d.apr) \div AprDivisor

\* by how much a debt's minimum payment exceeds that interest
Slack(d) == d.min - InterestOnPrincipal(d)

RECURSIVE SumMinimums(_)
SumMinimums(list) ==
    IF list = <<>> THEN 0
    ELSE SumMinimums(SubSeq(list, 1, Len(list) - 1)) + list[Len(list)].min

\* the precondition of C5: valid input, the budget covers all minimum
\* payments, every minimum payment exceeds the debt's monthly interest
MinimumsBeatInterest(list, budget) ==
    /\ ValidInput(list, budget)
    /\ budget >= SumMinimums(list)
    /\ \A i \in 1..Len(list) : Slack(list[i]) > 0

(* C5 as claimed: if monthlyBudget >= the sum of the minimum payments and  *)
(* every debt's minimum payment exceeds its monthly interest, the          *)
(* simulation converges within the cap: it returns with every balance at   *)
(* or below epsilon.                                                       *)
C5_ConvergesWithinCap ==
    (pc = "done" /\ MinimumsBeatInterest(debts, monthlyBudget)) =>
        (~SomeOutstanding(copy) /\ result.months <= MaxMonths)

(* C5 (amended): under that precondition every debt's balance falls each   *)
(* month by at least its slack (minimum payment minus monthly interest on  *)
(* the principal) until it is at or below epsilon, and the simulation      *)
(* converges within the cap when no principal exceeds 600 times the slack. *)
C5_ConvergesWhenSlackSuffices ==
    (InPlan /\ MinimumsBeatInterest(debts, monthlyBudget)) =>
        /\ \A i \in 1..Len(copy) :
              copy[i].balance <= Max(Epsilon, copy[i].principal - month * Slack(copy[i]))
        /\ (pc = "done" /\ \A i \in 1..Len(debts) :
                              debts[i].principal <= MaxMonths * Slack(debts[i]))
              => (~SomeOutstanding(copy) /\ result.months <= MaxMonths)

\* a plan that needed several months, with interest accruing, has converged
C5_Witness ==
    /\ pc = "done" /\ MinimumsBeatInterest(debts, monthlyBudget)
    /\ \A i \in 1..Len(debts) : debts[i].principal <= MaxMonths * Slack(debts[i])
    /\ result.months >= 2 /\ result.interestPaid > 0
    /\ ~SomeOutstanding(copy)

\* a month of the simulation has just been run on valid input
MonthRan == pc = "loop" /\ month' = month + 1 /\ ValidInput(debts, monthlyBudget)

(* C6 as claimed: the sum of the balances at the end of a month is never   *)
(* larger than at the end of the previous month.                           *)
C6_TotalNeverIncreases ==
    [][MonthRan => SumBalances(copy') <= SumBalances(copy)]_vars

(* C6 (amended): in every month whose accrued interest does not exceed     *)
(* monthlyBudget, the sum of the balances at the end of the month is not   *)
(* larger than at the end of the previous month.                           *)
C6_TotalFallsWhenBudgetCoversInterest ==
    [][(MonthRan /\ monthlyBudget >= schedule'[month'].totals.interest)
          => SumBalances(copy') <= SumBalances(copy)]_vars

\* a month ended in which interest accrued, the budget covered it and debt remains
C6_Witness ==
    /\ pc = "loop" /\ month >= 2 /\ ValidInput(debts, monthlyBudget)
    /\ LastRow.totals.interest > 0
    /\ monthlyBudget >= LastRow.totals.interest
    /\ SomeOutstanding(copy)

----------------------------------------------------------------------------
(* C7 as claimed: with debts and strategy fixed, a lower budget never      *)
(* yields strictly less total interest, for both strategies and any number *)
(* of debts.                                                               *)
C7_InterestMonotoneInBudget ==
    (pc = "done" /\ ValidInput(debts, monthlyBudget)) =>
        \A b2 \in BudgetInputs :
            b2 > monthlyBudget =>
                LET high == planPayoff(debts, b2, method)
                IN  high.complete => high.result.interestPaid <= result.interestPaid

(* C7 (amended): with debts fixed, a lower budget never yields strictly    *)
(* less total interest under avalanche (any number of debts) and, under    *)
(* either strategy, for a single debt.                                     *)
C7_InterestMonotoneUnderAvalanche ==
    (pc = "done" /\ ValidInput(debts, monthlyBudget)
        /\ (method = "avalanche" \/ Len(debts) = 1)) =>
        \A b2 \in BudgetInputs :
            b2 > monthlyBudget =>
                LET high == planPayoff(debts, b2, method)
                IN  high.complete => high.result.interestPaid <= result.interestPaid

\* two debts under avalanche, and a higher budget that pays strictly less interest
C7_Witness ==
    /\ pc = "done" /\ ValidInput(debts, monthlyBudget)
    /\ method = "avalanche" /\ Len(debts) = 2
    /\ \E b2 \in BudgetInputs :
          /\ b2 > monthlyBudget
          /\ planPayoff(debts, b2, method).complete
          /\ planPayoff(debts, b2, method).result.interestPaid < result.interestPaid
          /\ planPayoff(debts, b2, method).result.interestPaid > 0

\* two debts of equal starting balance and different APR, under avalanche
EqualBalanceDifferentApr ==
    /\ Len(debts) = 2
    /\ debts[1].principal = debts[2].principal
    /\ debts[1].apr # debts[2].apr

HigherApr == IF debts[1].apr > debts[2].apr THEN 1 ELSE 2
LowerApr == 3 - HigherApr

(* C8 as claimed: under avalanche with two debts of equal balance and      *)
(* different APR, the lower-APR debt receives extra in a month only if the *)
(* higher-APR debt's balance is zero at the end of that month.             *)
C8_ExtraToHigherAprUntilZero ==
    (InPlan /\ month >= 1 /\ method = "avalanche" /\ EqualBalanceDifferentApr
        /\ ValidInput(debts, monthlyBudget)) =>
        (ExtraOf(LastRow, LowerApr) > 0 => copy[HigherApr].balance = 0)

(* C8 (amended): under avalanche with two debts of equal balance and       *)
(* different APR, the lower-APR debt receives extra in a month only if the *)
(* higher-APR debt's balance is at or below epsilon at the end of that     *)
(* month.                                                                  *)
C8_ExtraToHigherAprUntilSettled ==
    (InPlan /\ month >= 1 /\ method = "avalanche" /\ EqualBalanceDifferentApr) =>
        (ExtraOf(LastRow, LowerApr) > 0 => copy[HigherApr].balance <= Epsilon)

\* a month in which the extra paid off the higher-APR debt and the rest went to
\* the lower-APR one
C8_Witness ==
    /\ InPlan /\ month >= 1 /\ method = "avalanche" /\ EqualBalanceDifferentApr
    /\ ExtraOf(LastRow, HigherApr) > 0
    /\ ExtraOf(LastRow, LowerApr) > 0

\* two debts of equal APR and different starting balance, under snowball
EqualAprDifferentBalance ==
    /\ Len(debts) = 2
    /\ debts[1].apr = debts[2].apr
    /\ debts[1].principal # debts[2].principal

SmallerPrincipal == IF debts[1].principal < debts[2].principal THEN 1 ELSE 2

\* the balances month 1 allocates extra on: after its accrual and minimum payments
AfterMinimums ==
    MinimumPhase([copy |-> CopyDebts(debts), avail |-> monthlyBudget, row |-> NewRow(1)], 1).copy

\* of two debts, the one snowball serves first in month 1
SmallerAtAllocation ==
    IF AfterMinimums[2].balance < AfterMinimums[1].balance THEN 2 ELSE 1

(* C9 as claimed: under snowball with two debts of equal APR and different *)
(* starting balances, for any minimum payments and budget, the debt with   *)
(* the larger starting balance receives extra in month 1 only if the one   *)
(* with the smaller starting balance is brought to zero in month 1.        *)
C9_ExtraToSmallerPrincipalFirst ==
    (InPlan /\ month = 1 /\ method = "snowball" /\ EqualAprDifferentBalance
        /\ ValidInput(debts, monthlyBudget)) =>
        (ExtraOf(LastRow, 3 - SmallerPrincipal) > 0 => copy[SmallerPrincipal].balance = 0)

(* C9 (amended): under snowball with two debts of equal APR and different  *)
(* starting balances, the extra of month 1 goes first to the debt whose    *)
(* balance is smaller after that month's accrual and minimum payments      *)
(* (input order on a tie): the other debt receives extra in month 1 only   *)
(* if that debt ends month 1 at or below epsilon.                          *)
C9_ExtraToSmallerBalanceAtAllocation ==
    (InPlan /\ month = 1 /\ method = "snowball" /\ EqualAprDifferentBalance) =>
        (ExtraOf(LastRow, 3 - SmallerAtAllocation) > 0
            => copy[SmallerAtAllocation].balance <= Epsilon)

\* month 1 gave extra to the debt with the larger starting balance, which the
\* minimum payments had made the smaller one, and left the other outstanding
C9_Witness ==
    /\ InPlan /\ month = 1 /\ method = "snowball" /\ EqualAprDifferentBalance
    /\ SmallerAtAllocation # SmallerPrincipal
    /\ ExtraOf(LastRow, SmallerAtAllocation) > 0
    /\ Outstanding(copy[SmallerPrincipal])

\* two debts of equal APR and equal starting balance
EqualAprEqualBalance ==
    /\ Len(debts) = 2
    /\ debts[1].apr = debts[2].apr
    /\ debts[1].principal = debts[2].principal

OtherMethod(meth) == IF meth = "snowball" THEN "avalanche" ELSE "snowball"

(* C10 as claimed: for two debts of equal APR and equal starting balance,  *)
(* with any minimum payments and budget, snowball and avalanche return     *)
(* identical results (months, total interest and schedule rows).           *)
C10_SameResultBothMethods ==
    (pc = "done" /\ EqualAprEqualBalance /\ ValidInput(debts, monthlyBudget)) =>
        LET other == planPayoff(debts, monthlyBudget, OtherMethod(method))
        IN  other.complete => other.result = result

(* C10 (amended): for two debts of equal APR, equal starting balance and   *)
(* equal minimum payment, snowball and avalanche return identical results  *)
(* (months, total interest and schedule rows), whatever the budget.        *)
C10_SameResultForIdenticalDebts ==
    (pc = "done" /\ EqualAprEqualBalance /\ debts[1].min = debts[2].min) =>
        LET other == planPayoff(debts, monthlyBudget, OtherMethod(method))
        IN  other.complete /\ other.result = result

\* a plan for two identical debts that took several months and allocated extra
C10_Witness ==
    /\ pc = "done" /\ EqualAprEqualBalance /\ debts[1].min = debts[2].min
    /\ ValidInput(debts, monthlyBudget)
    /\ result.months >= 2
    /\ \E r \in 1..Len(result.schedule) :
          ExtraOf(result.schedule[r], 1) > 0 /\ ExtraOf(result.schedule[r], 2) > 0

----------------------------------------------------------------------------
\* the payment entries of a row refer to pairwise different debts
UniqueDebtPerEntry(row) ==
    \A k1, k2 \in 1..Len(row.payments) :
        row.payments[k1].id = row.payments[k2].id => k1 = k2

(* C11: in every schedule row each debt appears in at most one payment     *)
(* entry; a debt that receives a minimum payment and an extra in the same  *)
(* month has both in one entry (the debts have distinct ids).              *)
C11_OneEntryPerDebt ==
    /\ \A r \in 1..Len(schedule) : UniqueDebtPerEntry(schedule[r])
    /\ pc = "done" => \A r \in 1..Len(result.schedule) :
                          UniqueDebtPerEntry(result.schedule[r])

\* a month in which one debt received a minimum payment and an extra, merged
\* into one entry, while the other debt was paid too
C11_Witness ==
    /\ InPlan /\ month >= 1 /\ Len(LastRow.payments) = 2
    /\ \E k \in 1..Len(LastRow.payments) :
          LastRow.payments[k].min > 0 /\ LastRow.payments[k].extra > 0

----------------------------------------------------------------------------
(* C12: for one debt with principal 1200, apr 0, minimum payment 100 and   *)
(* monthlyBudget 100, planPayoff returns exactly 12 months and total       *)
(* interest 0.                                                             *)
C12_TwelveMonthsNoInterest ==
    (pc = "done" /\ Runs(Scenario12)) =>
        (result.months = 12 /\ result.interestPaid = 0)

\* that plan has been returned, with the debt paid off
C12_Witness ==
    pc = "done" /\ Runs(Scenario12) /\ Len(result.schedule) = 12 /\ copy[1].balance = 0

(* C13 as claimed: for one debt with principal 1000, apr 24, minimum       *)
(* payment 1000 and monthlyBudget 1000, planPayoff returns a plan of 1     *)
(* month.                                                                  *)
C13_OneMonth ==
    (pc = "done" /\ Runs(Scenario13)) => result.months = 1

(* C13 (amended): for that debt and budget planPayoff returns a plan of 2  *)
(* months, with total interest 20.4.                                       *)
C13_TwoMonths ==
    (pc = "done" /\ Runs(Scenario13)) =>
        (result.months = 2 /\ result.interestPaid = 20400)

\* that plan has been returned
C13_Witness ==
    pc = "done" /\ Runs(Scenario13) /\ result.months = 2 /\ ~SomeOutstanding(copy)

(* C14: interest is accrued on a debt before any payment is applied to it: *)
(* for one debt with principal 1000, apr 24, minimum payment 1000 and      *)
(* monthlyBudget 1000, month 1 accrues 20, applies a minimum payment of    *)
(* min(1020, 1000) = 1000 and no extra, and ends with balance 20; month 2  *)
(* accrues 0.4 on that balance and then pays it off.                       *)
C14_AccrualBeforePayment ==
    (Runs(Scenario13) /\ month >= 1) =>
        /\ schedule[1].totals.interest = 20000
        /\ schedule[1].payments = <<[id |-> 1, min |-> 1000000, extra |-> 0]>>
        /\ month = 1 => copy[1].balance = 20000
        /\ month >= 2 =>
              /\ month = 2
              /\ schedule[2].totals.interest = 400
              /\ schedule[2].payments = <<[id |-> 1, min |-> 20400, extra |-> 0]>>
              /\ copy[1].balance = 0

\* month 2 of that run has just ended
C14_Witness ==
    pc = "loop" /\ Runs(Scenario13) /\ month = 2 /\ Len(schedule) = 2

----------------------------------------------------------------------------
RECURSIVE SumInterestOnPrincipal(_)
SumInterestOnPrincipal(list) ==
    IF list = <<>> THEN 0
    ELSE SumInterestOnPrincipal(SubSeq(list, 1, Len(list) - 1))
             + InterestOnPrincipal(list[Len(list)])

\* debt i alone accrues at least the whole budget as interest in month 1
InterestAbsorbsBudget(i) ==
    /\ debts[i].principal > Epsilon
    /\ InterestOnPrincipal(debts[i]) >= monthlyBudget

(* C15 as claimed: if monthlyBudget is less than the total interest        *)
(* accrued across all debts in month 1, the simulation never converges: it *)
(* returns a schedule of exactly 600 rows with some balance outstanding,   *)
(* for either strategy and any number of debts.                            *)
C15_NeverConvergesBelowTotalInterest ==
    (pc = "done" /\ ValidInput(debts, monthlyBudget)
        /\ monthlyBudget < SumInterestOnPrincipal(debts)) =>
        (result.months = MaxMonths /\ SomeOutstanding(copy))

(* C15 (amended): if monthlyBudget does not exceed the interest accrued in *)
(* month 1 on one single debt (with a principal above epsilon), the        *)
(* simulation never converges: that debt's balance never falls below its   *)
(* principal and the run ends only at the cap, with exactly 600 rows and   *)
(* that debt outstanding, for either strategy and any number of debts.     *)
C15_NeverConvergesBelowOneDebtsInterest ==
    (InPlan /\ ValidInput(debts, monthlyBudget)) =>
        \A i \in 1..Len(debts) :
            InterestAbsorbsBudget(i) =>
                /\ copy[i].balance >= debts[i].principal
                /\ pc = "done" => (result.months = MaxMonths /\ Outstanding(copy[i]))

\* such a run, with two debts, has been returned at the cap
C15_Witness ==
    /\ pc = "done" /\ ValidInput(debts, monthlyBudget) /\ Len(debts) = 2
    /\ \E i \in 1..2 : InterestAbsorbsBudget(i) /\ Outstanding(copy[i])
    /\ Len(result.schedule) = MaxMonths

----------------------------------------------------------------------------
(* C16: planPayoff does not modify its input and is deterministic: no step *)
(* of a call changes the debt records passed in (the balances live on the  *)
(* copies), and the result a call returns is the result of calling         *)
(* planPayoff again on the same debts, budget and method.                  *)
C16_InputUnchangedSameResult ==
    [][/\ pc = "loop" => debts' = debts
       /\ (pc = "loop" /\ pc' = "done") =>
              result' = planPayoff(debts', monthlyBudget', method').result]_vars

\* a call has returned after several months that changed the balances of both
\* copies and accrued interest
C16_Witness ==
    /\ pc = "done" /\ ValidInput(debts, monthlyBudget) /\ Len(debts) = 2
    /\ result.months >= 2 /\ result.interestPaid > 0
    /\ \A i \in 1..2 : copy[i].balance # debts[i].principal

----------------------------------------------------------------------------
\* the interest totals of the rows, added up from the first row on
RECURSIVE InterestOfRows(_)
InterestOfRows(rows) ==
    IF rows = <<>> THEN 0 ELSE Head(rows).totals.interest + InterestOfRows(Tail(rows))

(* C17: the returned months equals the number of schedule rows, the rows   *)
(* are numbered 1, 2, ..., months in order with no gaps, and the returned  *)
(* total interest equals the sum of the per-row interest totals.           *)
C17_MonthsRowsAndInterestAgree ==
    /\ \A r \in 1..Len(schedule) : schedule[r].month = r
    /\ pc = "done" =>
          /\ result.schedule = schedule
          /\ result.months = Len(result.schedule)
          /\ result.interestPaid = InterestOfRows(result.schedule)

\* a plan of several months has been returned, interest having accrued in more
\* than one of them
C17_Witness ==
    /\ pc = "done" /\ ValidInput(debts, monthlyBudget)
    /\ result.months >= 3
    /\ result.schedule[1].totals.interest > 0
    /\ result.schedule[2].totals.interest > 0
    /\ result.interestPaid > result.schedule[1].totals.interest

----------------------------------------------------------------------------
(* C18: the loop stops exactly when every debt's balance is at or below    *)
(* epsilon or the cap is hit: a row is appended only for a month that      *)
(* starts with some balance above epsilon and fewer than 600 rows, the     *)
(* loop is left only when no balance is above epsilon or 600 rows exist,   *)
(* and a returned schedule of fewer than 600 rows has every balance at or  *)
(* below epsilon after its last row.                                       *)
C18_StopsWhenSettledOrAtCap ==
    [][/\ Len(schedule') = Len(schedule) + 1 =>
              (SomeOutstanding(copy) /\ Len(schedule) < MaxMonths)
       /\ (pc = "loop" /\ pc' = "done") =>
              /\ ~SomeOutstanding(copy) \/ Len(schedule) = MaxMonths
              /\ Len(result'.schedule) < MaxMonths => ~SomeOutstanding(copy')]_vars

\* a plan of fewer than 600 rows has been returned with a residue of at most
\* epsilon left on a debt
C18_Witness ==
    /\ pc = "done" /\ ValidInput(debts, monthlyBudget)
    /\ result.months >= 2 /\ result.months < MaxMonths
    /\ ~SomeOutstanding(copy)
    /\ \E i \in 1..Len(copy) : copy[i].balance > 0

----------------------------------------------------------------------------
\* 0.01, the epsilon the specification names, in mills
OneCent == Epsilon + 1

\* a month of a call on valid input has just been simulated
MonthSimulated == pc = "loop" /\ month' = month + 1 /\ ValidInput(debts, monthlyBudget)

\* what the month just simulated did to debt i, whose balance b counts as
\* outstanding or not: an outstanding debt accrues its interest and may be paid,
\* any other debt accrues nothing and receives nothing
TreatedAsOutstanding(i) ==
    copy'[i].balance = copy[i].balance + Interest(copy[i])
                           - MinOf(schedule'[month'], copy[i].id)
                           - ExtraOf(schedule'[month'], copy[i].id)

TreatedAsPaidOff(i) ==
    /\ copy'[i].balance = copy[i].balance
    /\ \A k \in 1..Len(schedule'[month'].payments) :
           schedule'[month'].payments[k].id # copy[i].id

(* C19 as claimed: a debt is outstanding exactly when its balance is above *)
(* 0.01; a debt whose balance is exactly 0.01 is treated as paid off: it   *)
(* accrues nothing, receives nothing and does not cause a further month to *)
(* be simulated.                                                           *)
C19_OutstandingAboveOneCent ==
    [][MonthSimulated =>
          /\ \E i \in 1..Len(copy) : copy[i].balance > OneCent
          /\ \A i \in 1..Len(copy) :
                 copy[i].balance <= OneCent => TreatedAsPaidOff(i)]_vars

(* C19 (amended): a debt is outstanding exactly when its balance is above  *)
(* 0.009: a month is simulated only if some balance is above 0.009, in it  *)
(* a debt at or below 0.009 accrues nothing and receives nothing, a debt   *)
(* above 0.009 (one at exactly 0.01 included) accrues its interest and can *)
(* receive payments, and below the cap the loop is not left while a        *)
(* balance is above 0.009.                                                 *)
C19_OutstandingAboveEpsilon ==
    [][/\ MonthSimulated =>
              /\ \E i \in 1..Len(copy) : copy[i].balance > Epsilon
              /\ \A i \in 1..Len(copy) :
                     IF copy[i].balance > Epsilon
                     THEN TreatedAsOutstanding(i)
                     ELSE TreatedAsPaidOff(i)
       /\ (pc = "loop" /\ pc' = "done" /\ month < MaxMonths) =>
              \A i \in 1..Len(copy) : copy[i].balance <= Epsilon]_vars

\* month 1 has ended for a debt that started at exactly 0.01: it accrued interest
\* and was paid, while the other debt is still outstanding
C19_Witness ==
    /\ pc = "loop" /\ month = 1 /\ ValidInput(debts, monthlyBudget) /\ Len(debts) = 2
    /\ \E i \in 1..2 :
          /\ debts[i].principal = OneCent
          /\ LastRow.totals.interest >= InterestOnPrincipal(debts[i])
          /\ InterestOnPrincipal(debts[i]) > 0
          /\ ExtraOf(LastRow, i) > OneCent
          /\ copy[i].balance = 0
          /\ copy[3 - i].balance > Epsilon

----------------------------------------------------------------------------
\* the mins a row applied to the debts before position i of the input list
RECURSIVE MinsBefore(_, _)
MinsBefore(row, i) ==
    IF i <= 1 THEN 0 ELSE MinsBefore(row, i - 1) + MinOf(row, copy[i - 1].id)

\* min(post-accrual balance, minimum payment, budget left by the earlier debts)
MinDue(row, i) ==
    Min(Min(copy[i].balance + Interest(copy[i]), copy[i].min),
        monthlyBudget - MinsBefore(row, i))

(* C20 as claimed: minimum payments are applied in input order whatever    *)
(* the strategy: in every month the min applied to a debt equals           *)
(* min(its post-accrual balance, its minimum payment, monthlyBudget minus  *)
(* the mins already applied to debts earlier in the input list).           *)
C20_MinimumsInInputOrder ==
    [][MonthSimulated =>
          \A i \in 1..Len(copy) :
              MinOf(schedule'[month'], copy[i].id) = MinDue(schedule'[month'], i)]_vars

(* C20 (amended): the same, for every debt whose balance is above epsilon  *)
(* at the start of the month; a debt at or below epsilon is skipped and    *)
(* has no min applied, whatever its residue and minimum payment.           *)
C20_MinimumsInInputOrderForOutstanding ==
    [][MonthSimulated =>
          \A i \in 1..Len(copy) :
              MinOf(schedule'[month'], copy[i].id) =
                  IF copy[i].balance > Epsilon THEN MinDue(schedule'[month'], i) ELSE 0]_vars

\* under snowball, month 1 could not cover both minimums: the first debt of the
\* list got its whole minimum and the second, although the smaller one, only
\* what the budget had left
C20_Witness ==
    /\ pc = "loop" /\ month = 1 /\ method = "snowball" /\ Len(debts) = 2
    /\ ValidInput(debts, monthlyBudget)
    /\ debts[2].principal < debts[1].principal
    /\ MinOf(LastRow, 1) = Min(debts[1].principal + InterestOnPrincipal(debts[1]), debts[1].min)
    /\ MinOf(LastRow, 1) > 0
    /\ MinOf(LastRow, 2) = monthlyBudget - MinOf(LastRow, 1)
    /\ MinOf(LastRow, 2) > 0
    /\ MinOf(LastRow, 2) < Min(debts[2].principal + InterestOnPrincipal(debts[2]), debts[2].min)

----------------------------------------------------------------------------
\* the balances the month being simulated allocates extra on (after its accrual
\* and minimum payments), and the strategy order taken on them
AtAllocation ==
    MinimumPhase([copy |-> copy, avail |-> monthlyBudget, row |-> NewRow(month + 1)], 1)

StrategyOrder == Order(AtAllocation.copy, method)

\* the extras a row gave to the debts before position k of the strategy order
RECURSIVE ExtrasBefore(_, _, _)
ExtrasBefore(row, ord, k) ==
    IF k <= 1 THEN 0
    ELSE ExtrasBefore(row, ord, k - 1) + ExtraOf(row, copy[ord[k - 1]].id)

(* C21: in the strategy phase the remaining budget is handed out greedily  *)
(* in strategy order, each debt taking min(balance, remaining budget): in  *)
(* every row a debt receives extra only if every debt before it in the     *)
(* order has ended the month with balance zero.                            *)
C21_GreedyInStrategyOrder ==
    [][MonthSimulated =>
          LET row == schedule'[month']
              ord == StrategyOrder
          IN  \A k \in 1..Len(ord) :
                /\ ExtraOf(row, copy[ord[k]].id) =
                       Min(AtAllocation.copy[ord[k]].balance,
                           AtAllocation.avail - ExtrasBefore(row, ord, k))
                /\ \A j \in 1..(k - 1) :
                       ExtraOf(row, copy[ord[k]].id) > 0 => copy'[ord[j]].balance = 0]_vars

\* a month has ended in which the extra paid one debt off and the rest of it
\* went to the other, which is still outstanding
C21_Witness ==
    /\ pc = "loop" /\ month >= 1 /\ Len(debts) = 2 /\ ValidInput(debts, monthlyBudget)
    /\ ExtraOf(LastRow, 1) > 0 /\ ExtraOf(LastRow, 2) > 0
    /\ \E i \in 1..2 : copy[i].balance = 0 /\ copy[3 - i].balance > Epsilon

----------------------------------------------------------------------------
\* the interest the month being simulated accrues on the debts above epsilon
RECURSIVE InterestOnOutstanding(_, _)
InterestOnOutstanding(cp, n) ==
    IF n = 0 THEN 0
    ELSE InterestOnOutstanding(cp, n - 1)
             + (IF cp[n].balance > Epsilon THEN Interest(cp[n]) ELSE 0)

(* C22: once a debt's balance is at or below epsilon at the end of a month *)
(* it stays settled: in every later month it accrues no interest, its      *)
(* balance is unchanged, it is excluded from the strategy ordering and no  *)
(* payment entry (min or extra) for it appears in the row.                 *)
C22_SettledStaysSettled ==
    [][MonthSimulated =>
          /\ schedule'[month'].totals.interest = InterestOnOutstanding(copy, Len(copy))
          /\ \A i \in 1..Len(copy) :
                 copy[i].balance <= Epsilon =>
                     /\ TreatedAsPaidOff(i)
                     /\ copy'[i].balance <= Epsilon
                     /\ \A k \in 1..Len(StrategyOrder) : StrategyOrder[k] # i]_vars

\* two months have passed over a debt with a positive APR and a residue of at
\* most epsilon, while the other debt accrued interest and was paid
C22_Witness ==
    /\ pc = "loop" /\ month >= 3 /\ Len(debts) = 2 /\ ValidInput(debts, monthlyBudget)
    /\ \E i \in 1..2 :
          /\ copy[i].balance > 0 /\ copy[i].balance <= Epsilon /\ copy[i].apr > 0
          /\ \A r \in {month - 1, month} :
                 /\ MinOf(schedule[r], i) + ExtraOf(schedule[r], i) = 0
                 /\ MinOf(schedule[r], 3 - i) + ExtraOf(schedule[r], 3 - i) > 0
          /\ LastRow.totals.interest > 0

----------------------------------------------------------------------------
\* debt i's minimum payment does not exceed the interest a month accrues on its
\* principal, and no row so far has given it any extra
MinimumWithinInterest(i) == debts[i].min <= InterestOnPrincipal(debts[i])

NoExtraSoFar(i) == \A r \in 1..Len(schedule) : ExtraOf(schedule[r], i) = 0

(* C23: a debt whose minimum payment is less than or equal to its monthly  *)
(* accrued interest never amortizes through minimum payments alone: in any *)
(* run in which that debt receives no extra payment, its end-of-month      *)
(* balance is never below its principal.                                   *)
C23_MinimumAloneNeverAmortizes ==
    (InPlan /\ ValidInput(debts, monthlyBudget)) =>
        \A i \in 1..Len(copy) :
            (MinimumWithinInterest(i) /\ NoExtraSoFar(i)) =>
                copy[i].balance >= debts[i].principal

\* two months in which such a debt was paid its whole minimum and no extra, the
\* extra going to the other debt, and its balance has grown
C23_Witness ==
    /\ pc = "loop" /\ month >= 2 /\ Len(debts) = 2 /\ ValidInput(debts, monthlyBudget)
    /\ \E i \in 1..2 :
          /\ debts[i].min > 0 /\ MinimumWithinInterest(i) /\ NoExtraSoFar(i)
          /\ MinOf(LastRow, i) = debts[i].min
          /\ ExtraOf(LastRow, 3 - i) > 0
          /\ copy[i].balance > debts[i].principal

----------------------------------------------------------------------------
\* debts i and j are both outstanding when the month being simulated allocates
\* its extra, and the strategy's key does not tell them apart
TiedAtAllocation(i, j) ==
    /\ AtAllocation.copy[i].balance > Epsilon
    /\ AtAllocation.copy[j].balance > Epsilon
    /\ IF method = "snowball"
       THEN AtAllocation.copy[i].balance = AtAllocation.copy[j].balance
       ELSE copy[i].apr = copy[j].apr

(* C24: strategy ordering is stable on ties: under avalanche two           *)
(* outstanding debts with equal APR, and under snowball two outstanding    *)
(* debts with equal balance at allocation time, receive extra in their     *)
(* input order: the later one only after the earlier one has received      *)
(* extra and been paid down to zero.                                       *)
C24_TiesInInputOrder ==
    [][MonthSimulated =>
          \A i, j \in 1..Len(copy) :
              (i < j /\ TiedAtAllocation(i, j)
                  /\ ExtraOf(schedule'[month'], copy[j].id) > 0) =>
                  /\ ExtraOf(schedule'[month'], copy[i].id) > 0
                  /\ copy'[i].balance = 0]_vars

\* under snowball month 1 found two debts with equal balances at allocation: it
\* paid the first of the list off and gave the rest to the second, which is
\* still outstanding
C24_Witness ==
    /\ pc = "loop" /\ month = 1 /\ method = "snowball" /\ Len(debts) = 2
    /\ ValidInput(debts, monthlyBudget)
    /\ AfterMinimums[1].balance = AfterMinimums[2].balance
    /\ AfterMinimums[1].balance > Epsilon
    /\ ExtraOf(LastRow, 1) > 0 /\ copy[1].balance = 0
    /\ ExtraOf(LastRow, 2) > 0 /\ copy[2].balance > Epsilon

----------------------------------------------------------------------------
\* what a row paid in all: the mins and extras of its entries
RECURSIVE PaidInRow(_, _)
PaidInRow(row, n) ==
    IF n = 0 THEN 0
    ELSE PaidInRow(row, n - 1) + row.payments[n].min + row.payments[n].extra

\* the principal share of the month being simulated: for every debt that
\* received a minimum payment, what it exceeds the debt's interest of the month
\* by (0 if it does not), plus all extras
RECURSIVE PrincipalShare(_, _)
PrincipalShare(row, n) ==
    IF n = 0 THEN 0
    ELSE PrincipalShare(row, n - 1)
             + (IF MinOf(row, copy[n].id) > 0
                THEN Max(0, MinOf(row, copy[n].id) - Interest(copy[n]))
                ELSE 0)
             + ExtraOf(row, copy[n].id)

(* C25: each row's principal total equals the sum over debts that received *)
(* a minimum payment of max(0, min applied - interest accrued on that debt *)
(* this month) plus the sum of all extra payments in the row; it is never  *)
(* negative and never exceeds the total amount paid (min + extra) in that  *)
(* row.                                                                    *)
C25_PrincipalTotalOfRow ==
    [][MonthSimulated =>
          LET row == schedule'[month'] IN
          /\ row.totals.principal = PrincipalShare(row, Len(copy))
          /\ row.totals.principal >= 0
          /\ row.totals.principal <= PaidInRow(row, Len(row.payments))]_vars

\* a month has ended in which one debt's minimum payment was below its interest
\* of the month, so that only part of what the row paid counts as principal
C25_Witness ==
    /\ pc = "loop" /\ month >= 1 /\ Len(debts) = 2 /\ ValidInput(debts, monthlyBudget)
    /\ \E i \in 1..2 : MinOf(LastRow, i) > 0 /\ ExtraOf(LastRow, 3 - i) > 0
    /\ LastRow.totals.principal > 0
    /\ LastRow.totals.principal < PaidInRow(LastRow, Len(LastRow.payments))

----------------------------------------------------------------------------
(* C26: for monthlyBudget >= 0 the payments of a row never exceed the      *)
(* budget: the sum of min and extra over all payment entries of the row is *)
(* at most monthlyBudget, and every min and extra amount is non-negative.  *)
C26_RowWithinBudget ==
    (InPlan /\ monthlyBudget >= 0) =>
        \A r \in 1..Len(schedule) :
            /\ PaidInRow(schedule[r], Len(schedule[r].payments)) <= monthlyBudget
            /\ \A k \in 1..Len(schedule[r].payments) :
                   schedule[r].payments[k].min >= 0 /\ schedule[r].payments[k].extra >= 0

\* a month has ended whose minimum payments and extras together used the whole
\* budget
C26_Witness ==
    /\ pc = "loop" /\ month >= 1 /\ monthlyBudget > 0 /\ Len(LastRow.payments) = 2
    /\ \E k \in 1..2 : LastRow.payments[k].min > 0
    /\ \E k \in 1..2 : LastRow.payments[k].extra > 0
    /\ PaidInRow(LastRow, 2) = monthlyBudget

(* C27: no budget is left unused while debt remains: for monthlyBudget >=  *)
(* 0, if any debt has a balance above epsilon at the end of a month, the   *)
(* payments of that month's row sum to exactly monthlyBudget.              *)
C27_BudgetUsedWhileDebtRemains ==
    (InPlan /\ monthlyBudget >= 0 /\ month >= 1 /\ SomeOutstanding(copy)) =>
        PaidInRow(LastRow, Len(LastRow.payments)) = monthlyBudget

\* a month has ended that paid one debt off with part of the budget and put the
\* rest on the other, which is still outstanding
C27_Witness ==
    /\ pc = "loop" /\ month >= 1 /\ monthlyBudget > 0 /\ Len(debts) = 2
    /\ \E i \in 1..2 :
          /\ copy[i].balance = 0
          /\ MinOf(LastRow, i) + ExtraOf(LastRow, i) > 0
          /\ MinOf(LastRow, i) + ExtraOf(LastRow, i) < monthlyBudget
          /\ copy[3 - i].balance > Epsilon
          /\ ExtraOf(LastRow, 3 - i) > 0

RECURSIVE SumPrincipals(_)
SumPrincipals(list) ==
    IF list = <<>> THEN 0
    ELSE SumPrincipals(SubSeq(list, 1, Len(list) - 1)) + list[Len(list)].principal

\* interest accrued less payments recorded, over all rows
AccruedLessPaid(rows) ==
    LET upTo[n \in 0..Len(rows)] ==
            IF n = 0 THEN 0
            ELSE upTo[n - 1] + rows[n].totals.interest
                     - PaidInRow(rows[n], Len(rows[n].payments))
    IN  upTo[Len(rows)]

(* C28: accounting conservation: after every simulated month the sum of    *)
(* all debts' balances equals the sum of their principals plus the         *)
(* interest totals of all rows so far minus the sum of all min and extra   *)
(* amounts recorded in all rows so far (the debts have distinct ids).      *)
C28_Conservation ==
    InPlan =>
        SumBalances(copy) = SumPrincipals(debts) + AccruedLessPaid(schedule)

\* several months have ended with interest accrued and with minimum payments
\* and extras recorded, debt remaining
C28_Witness ==
    /\ pc = "loop" /\ month >= 3 /\ Len(debts) = 2
    /\ schedule[1].totals.interest > 0 /\ LastRow.totals.interest > 0
    /\ \E k \in 1..Len(LastRow.payments) :
          LastRow.payments[k].min > 0 /\ LastRow.payments[k].extra > 0
    /\ SumBalances(copy) > Epsilon

----------------------------------------------------------------------------
(* C29: the strategy argument is never rejected: when method is omitted or *)
(* is any value other than 'snowball', planPayoff orders extra payments by *)
(* descending APR and produces exactly the result of method 'avalanche':   *)
(* every month of such a run is the month avalanche simulates, and the     *)
(* plan returned is the plan of these months.                              *)
C29_AvalancheUnlessSnowball ==
    [][/\ (MonthSimulated /\ method # "snowball") =>
              /\ \A k1, k2 \in 1..Len(StrategyOrder) :
                     k1 < k2 => copy[StrategyOrder[k1]].apr >= copy[StrategyOrder[k2]].apr
              /\ copy' = MonthBody(copy, month + 1, monthlyBudget, "avalanche").copy
              /\ schedule'[month'] = MonthBody(copy, month + 1, monthlyBudget, "avalanche").row
       /\ (pc = "loop" /\ pc' = "done" /\ method # "snowball") =>
              /\ DOMAIN result' = {"months", "interestPaid", "schedule"}
              /\ result'.schedule = schedule]_vars

\* a call with a method that is neither snowball nor avalanche has put the extra
\* of month 1 on the debt with the higher APR, although it is the larger one
C29_Witness ==
    /\ pc = "loop" /\ month = 1 /\ method \notin {"snowball", "avalanche"}
    /\ Len(debts) = 2 /\ ValidInput(debts, monthlyBudget)
    /\ \E i \in 1..2 :
          /\ debts[i].apr > debts[3 - i].apr
          /\ AfterMinimums[i].balance > AfterMinimums[3 - i].balance
          /\ AfterMinimums[3 - i].balance > Epsilon
          /\ ExtraOf(LastRow, i) > 0
          /\ ExtraOf(LastRow, 3 - i) = 0

----------------------------------------------------------------------------
\* the list the server plans over holds each debt of the form exactly once
StoreIsForm ==
    /\ Len(debts) = Len(form.debts)
    /\ \A i \in 1..Len(debts) :
           /\ debts[i].principal = form.debts[i].principal
           /\ debts[i].apr = form.debts[i].apr
           /\ debts[i].min = form.debts[i].min

(* C30 (code_bug): the plan shown by DebtPlanner is computed over exactly  *)
(* the debts currently in the form: after any number of earlier 'Compute   *)
(* Plan' clicks the list passed to planPayoff contains each form debt      *)
(* exactly once, so the months and total interest returned are those of    *)
(* the plan of the form's debts.                                           *)
C30_PlanOverFormDebts ==
    /\ InPlan => StoreIsForm
    /\ pc = "done" =>
          LET p == planPayoff(PostAll(<<>>, form.debts), form.monthly, form.method).result
          IN  result.months = p.months /\ result.interestPaid = p.interestPaid

====
